---- MODULE Spec2Model ----
(***************************************************************************)
(* Telemetry stitcher of the karting engineer (src/src/stitcher.py), as    *)
(* called by the upload shell (src/src/app.py).                            *)
(*                                                                         *)
(* Numbers.  Times and channel values are floats in the program; here they *)
(* are points of an integer grid.  Every time column parses as float64.    *)
(* speed_mph is kept in thousandths (speed * 2237 stands for speed *       *)
(* 2.237) and lat_g in units of (pi/180)/9.81 g, so that                   *)
(* speed * radians(yaw) / 9.81 * -1 is -(speed * yaw).                     *)
(*                                                                         *)
(* Cells.  A cell of a table is a number, NaN (pandas' missing value: an   *)
(* empty CSV cell, or the result of a failed coercion) or Junk (text that  *)
(* is not a number, as read from the file).                                *)
(***************************************************************************)
EXTENDS Integers, Sequences, FiniteSets, TLC

VARIABLES folder, pc, data_frames, master, beacon_markers, df, idx,
          current_lap, start_t, result

vars == <<folder, pc, data_frames, master, beacon_markers, df, idx,
          current_lap, start_t, result>>

-----------------------------------------------------------------------------
(* Bounds of the model *)

\* data lines staged into the folder, over all its files
MaxRows == 2
\* data lines of a folder one of whose files does not load or lacks a column
MaxBadRows == 1
\* data lines of a folder that holds RPM.csv and one more channel file
MaxJoinRows == 3
\* fields after the "Beacon Markers" label
MaxMarkers == 2

\* the timestamps and the channel values of the grid
TimeGrid == {0, 1, 2}
ValueGrid == {0, 1}

\* pandas' missing value
NaN == -1000
\* a text cell that is no number
Junk == -2000

TimeCells == {Junk} \cup TimeGrid
ValueCells == {NaN} \cup ValueGrid

-----------------------------------------------------------------------------
(* Tables (pandas DataFrames): a set of column names and a sequence of     *)
(* rows, each row a function from the column names to cells.               *)

Table(cols, rows) == [cols |-> cols, rows |-> rows]

EmptyTable == Table({}, <<>>)

SeqMax(S) == CHOOSE x \in S : \A y \in S : y <= x
SeqMin(S) == CHOOSE x \in S : \A y \in S : x <= y

\* df.rename(columns={old: new})
Rename(t, old, new) ==
    IF old \notin t.cols THEN t
    ELSE Table((t.cols \ {old}) \cup {new},
               [i \in 1..Len(t.rows) |->
                   [c \in (t.cols \ {old}) \cup {new} |->
                       IF c = new THEN t.rows[i][old] ELSE t.rows[i][c]]])

\* df[[...]] : KeyError unless every name is a column
CanSelect(t, cols) == cols \subseteq t.cols

Select(t, cols) ==
    Table(cols, [i \in 1..Len(t.rows) |-> [c \in cols |-> t.rows[i][c]]])

\* df[name] = vals, one value per row
Assign(t, name, vals) ==
    Table(t.cols \cup {name},
          [i \in 1..Len(t.rows) |->
              [c \in t.cols \cup {name} |->
                  IF c = name THEN vals[i] ELSE t.rows[i][c]]])

\* pd.to_numeric(cell, errors='coerce')
ToNumeric(c) == IF c = Junk THEN NaN ELSE c

\* df[col] = pd.to_numeric(df[col], errors='coerce')
Coerce(t, col) ==
    Table(t.cols,
          [i \in 1..Len(t.rows) |->
              [c \in t.cols |->
                  IF c = col THEN ToNumeric(t.rows[i][c]) ELSE t.rows[i][c]]])

\* the rows of s whose time is a number, in order
RECURSIVE ValidTimeRows(_)
ValidTimeRows(s) ==
    IF s = <<>> THEN <<>>
    ELSE IF Head(s)["time"] # NaN THEN <<Head(s)>> \o ValidTimeRows(Tail(s))
    ELSE ValidTimeRows(Tail(s))

\* the time filter left out
DropNaTimeKeepAll(t) == t

\* df.dropna(subset=['time'])
DropNaTime(t) == Table(t.cols, ValidTimeRows(t.rows))

\* df.sort_values('time'): the default sort is not stable, so rows of equal
\* time may come out in any order
RemoveAt(rows, i) == SubSeq(rows, 1, i - 1) \o SubSeq(rows, i + 1, Len(rows))

\* every ordering of the rows by ascending time
RECURSIVE SortedOrders(_)
SortedOrders(rows) ==
    IF rows = <<>> THEN {<<>>}
    ELSE LET least == {i \in 1..Len(rows) :
                          \A j \in 1..Len(rows) : rows[i]["time"] <= rows[j]["time"]}
         IN  UNION {{<<rows[i]>> \o rest : rest \in SortedOrders(RemoveAt(rows, i))} :
                       i \in least}

SortValues(t) == {Table(t.cols, rows) : rows \in SortedOrders(t.rows)}

\* master.fillna(0)
FillNa(t) ==
    Table(t.cols,
          [i \in 1..Len(t.rows) |->
              [c \in t.cols |-> IF t.rows[i][c] = NaN THEN 0 ELSE t.rows[i][c]]])

-----------------------------------------------------------------------------
(* pd.merge_asof(left, right, on='time', direction='nearest')              *)

\* last right row at or before t (0: none)
BackwardIdx(rows, t) ==
    LET S == {j \in 1..Len(rows) : rows[j]["time"] <= t}
    IN  IF S = {} THEN 0 ELSE SeqMax(S)

\* first right row at or after t (0: none)
ForwardIdx(rows, t) ==
    LET S == {j \in 1..Len(rows) : rows[j]["time"] >= t}
    IN  IF S = {} THEN 0 ELSE SeqMin(S)

NearestIdxLater(rows, t) ==
    LET b == BackwardIdx(rows, t)
        f == ForwardIdx(rows, t)
    IN  IF b = 0 THEN f
        ELSE IF f = 0 THEN b
        ELSE IF t - rows[b]["time"] < rows[f]["time"] - t THEN b ELSE f

\* the nearer of the two; the backward one when they are equally far
NearestIdx(rows, t) ==
    LET b == BackwardIdx(rows, t)
        f == ForwardIdx(rows, t)
    IN  IF b = 0 THEN f
        ELSE IF f = 0 THEN b
        ELSE IF t - rows[b]["time"] <= rows[f]["time"] - t THEN b ELSE f

\* a left join: one output row per left row, the right columns taken from
\* the nearest right row, missing when the right table has no row
MergeAsof(left, right) ==
    LET cols == left.cols \cup right.cols
    IN  Table(cols,
              [i \in 1..Len(left.rows) |->
                  LET j == NearestIdx(right.rows, left.rows[i]["time"])
                  IN  [c \in cols |->
                          IF c \in left.cols THEN left.rows[i][c]
                          ELSE IF j = 0 THEN NaN
                          ELSE right.rows[j][c]]])

-----------------------------------------------------------------------------
(* Files of the folder *)

\* files = {'rpm': 'RPM.csv', 'gps': '_GPS.csv', 'steer': ..., 'gyro': ...}
Keys == {"rpm", "gps", "steer", "gyro"}

ValueName(key) ==
    CASE key = "rpm" -> "rpm"
      [] key = "steer" -> "steer"
      [] key = "gyro" -> "yaw_rate"
      [] OTHER -> "speed"

\* header lines a per-channel file may carry (as written by the logger)
ValueHeaders == {{"Time", "Value"}, {"Value"}, {"Time"}}
GpsHeaders == {{"Time", "Speed"}, {"Time", "GPS Speed", "Lat"}, {"Speed"}}

HeadersOf(key) == IF key = "gps" THEN GpsHeaders ELSE ValueHeaders

\* the header line of a combined export; detection needs "Time" and
\* "GPS Speed" in it
CombinedHeaders ==
    {{"Time", "GPS Speed", " RPM", "Steering Angle", "GPS LatAcc", "GPS LonAcc"},
     {"Time", "GPS Speed"}}

\* c.strip().lower()
Lower(c) ==
    CASE c = "Time" -> "time"
      [] c = "Value" -> "value"
      [] c = "Speed" -> "speed"
      [] c = "GPS Speed" -> "gps speed"
      [] c = "Lat" -> "lat"
      [] OTHER -> c

\* c.strip().replace('"', '')
Clean(c) == IF c = " RPM" THEN "RPM" ELSE c

\* 'speed' in c
HasSpeed(c) == c \in {"speed", "gps speed"}

\* a data line of a file: its time cell and the cell of its other columns
Line(t, v) == [time |-> t, value |-> v]

\* (a line of a per-channel file whose time is no number is dropped on
\* loading whatever its value: it is taken with an empty value cell)
ChannelLines ==
    {Line(t, v) : t \in TimeGrid, v \in ValueCells} \cup {Line(Junk, NaN)}
CombinedLines == {Line(t, v) : t \in TimeCells, v \in {Junk} \cup ValueGrid}

SeqsUpTo(S, n) == UNION {[1..k -> S] : k \in 0..n}

\* pd.read_csv: the header's columns, one row per data line
ReadCsv(header, lines, timeCol) ==
    Table(header,
          [i \in 1..Len(lines) |->
              [c \in header |-> IF c = timeCol THEN lines[i].time ELSE lines[i].value]])

\* a header with a time column and a value column
FullHeader(h) == "Time" \in h /\ Cardinality(h) > 1

\* data lines of the folder (the units line of a combined export apart)
RowsIn(fld) ==
    LET n(name) == IF name \in DOMAIN fld THEN Len(fld[name].lines) ELSE 0
        u == IF "combined" \in DOMAIN fld /\ fld["combined"].lines # <<>>
             THEN 1 ELSE 0
    IN  n("rpm") + n("gps") + n("steer") + n("gyro") + n("combined") - u

-----------------------------------------------------------------------------
(* The result handed back to the caller *)

Running == [status |-> "running", table |-> EmptyTable, msg |-> ""]
Success(t, m) == [status |-> "ok", table |-> t, msg |-> m]
Failure(m) == [status |-> "fail", table |-> EmptyTable, msg |-> m]
\* an exception that leaves load_and_stitch_from_folder
Raised(m) == [status |-> "raise", table |-> EmptyTable, msg |-> m]

Init ==
    /\ folder = <<>>
    /\ pc = "stage"
    /\ data_frames = <<>>
    /\ master = EmptyTable
    /\ beacon_markers = <<>>
    /\ df = EmptyTable
    /\ idx = 0
    /\ current_lap = 0
    /\ start_t = 0
    /\ result = Running

Put(fld, name, file) ==
    [n \in DOMAIN fld \cup {name} |-> IF n = name THEN file ELSE fld[n]]

\* the units row under the header of a combined export
UnitsLine == Line(Junk, Junk)

\* a combined export the detector cannot read
Unreadable ==
    [readable |-> FALSE, header |-> {"Time", "GPS Speed"}, markers |-> <<>>,
     lines |-> <<>>]

HasExport(fld) == "combined" \in DOMAIN fld /\ fld["combined"].readable

\* a per-channel file that does not parse or lacks a column
Malformed(file) == ~file.parses \/ ~FullHeader(file.header)

RowLimit(fld) ==
    IF "combined" \in DOMAIN fld THEN 0
    ELSE IF \E k \in DOMAIN fld : Malformed(fld[k]) THEN MaxBadRows
    ELSE MaxRows

\* the shell writes one uploaded per-channel file into the temporary folder;
\* parses: whether read_csv gets through the file
\* (a file that does not parse or whose header lacks the time or the value
\* column is taken without data lines: they are never looked at)
SaveChannelFile(key) ==
    /\ pc = "stage"
    /\ key \notin DOMAIN folder
    /\ ~HasExport(folder)
    /\ \E h \in HeadersOf(key) :
       \E ok \in BOOLEAN :
       \E ls \in IF FullHeader(h) /\ ok
                 THEN SeqsUpTo(ChannelLines, RowLimit(folder) - RowsIn(folder))
                 ELSE {<<>>} :
          /\ ~ok => FullHeader(h)
          /\ ~(FullHeader(h) /\ ok) => RowsIn(folder) <= MaxBadRows
          /\ folder' = Put(folder, key, [header |-> h, lines |-> ls, parses |-> ok])
    /\ UNCHANGED <<pc, data_frames, master, beacon_markers, df, idx,
                   current_lap, start_t, result>>

\* the shell writes an uploaded combined export into the temporary folder
SaveCombinedFile ==
    /\ pc = "stage"
    /\ folder = <<>>
    /\ \E h \in CombinedHeaders :
       \E ms \in SeqsUpTo({Junk} \cup (TimeGrid \ {0}), MaxMarkers) :
       \E ls \in {<<>>} \cup
                 {<<UnitsLine>> \o d : d \in SeqsUpTo(CombinedLines, MaxRows)} :
          folder' = Put(folder, "combined",
                        [readable |-> TRUE, header |-> h, markers |-> ms,
                         lines |-> ls])
    /\ UNCHANGED <<pc, data_frames, master, beacon_markers, df, idx,
                   current_lap, start_t, result>>

\* the shell writes a combined export that cannot be read back
SaveUnreadableFile ==
    /\ pc = "stage"
    /\ "combined" \notin DOMAIN folder
    /\ RowsIn(folder) = 0
    /\ folder' = Put(folder, "combined", Unreadable)
    /\ UNCHANGED <<pc, data_frames, master, beacon_markers, df, idx,
                   current_lap, start_t, result>>

\* the shell writes RPM.csv and one more channel file
SaveJoinFiles(key) ==
    /\ pc = "stage"
    /\ folder = <<>>
    /\ \E h \in {x \in HeadersOf(key) : FullHeader(x)} :
       \E ref \in SeqsUpTo(ChannelLines, MaxJoinRows) :
       \E ls \in SeqsUpTo(ChannelLines, MaxJoinRows - Len(ref)) :
          folder' = Put(Put(folder, "rpm",
                            [header |-> {"Time", "Value"}, lines |-> ref,
                             parses |-> TRUE]),
                        key, [header |-> h, lines |-> ls, parses |-> TRUE])
    /\ UNCHANGED <<pc, data_frames, master, beacon_markers, df, idx,
                   current_lap, start_t, result>>

-----------------------------------------------------------------------------
(* load_and_stitch_from_folder *)

\* a file whose first 20 lines hold a line with "Time" and "GPS Speed";
\* a file that cannot be read is skipped
Detected(fld) ==
    /\ "combined" \in DOMAIN fld
    /\ fld["combined"].readable
    /\ {"Time", "GPS Speed"} \subseteq fld["combined"].header

-----------------------------------------------------------------------------
(* process_batch_files *)

NotLoaded == [cols |-> {}, rows |-> <<>>, loaded |-> FALSE]
Loaded(t) == [cols |-> t.cols, rows |-> t.rows, loaded |-> TRUE]

\* read_csv, lower-cased column names, then the time column made numeric,
\* rows without a time dropped, rows sorted by time
LoadedFrames(file) ==
    LET raw == ReadCsv(file.header, file.lines, "Time")
        low == Table({Lower(c) : c \in raw.cols},
                     [i \in 1..Len(raw.rows) |->
                         [c \in {Lower(x) : x \in raw.cols} |->
                             raw.rows[i][CHOOSE x \in raw.cols : Lower(x) = c]]])
    IN  IF "time" \in low.cols
        THEN {Loaded(t) : t \in SortValues(DropNaTime(Coerce(low, "time")))}
        ELSE {NotLoaded}

\* what the loading loop may leave for one key: nothing when the file does
\* not exist, when read_csv raises or when there is no time column
LoadOutcomes(fld, key) ==
    IF key \notin DOMAIN fld \/ ~fld[key].parses THEN {NotLoaded}
    ELSE LoadedFrames(fld[key])

Frames(a, b, c, d) ==
    LET all == [rpm |-> a, gps |-> b, steer |-> c, gyro |-> d]
    IN  [k \in {x \in Keys : all[x].loaded} |-> Table(all[k].cols, all[k].rows)]

RpmMissing == "RPM file missing."

\* the steering series taken as the clock when there is no RPM series
ReferenceAny(frames) ==
    IF "rpm" \in DOMAIN frames THEN "rpm"
    ELSE IF "steer" \in DOMAIN frames THEN "steer"
    ELSE "none"

\* the key whose frame is the reference clock: 'rpm' not in data_frames
Reference(frames) == IF "rpm" \in DOMAIN frames THEN "rpm" ELSE "none"

\* data_frames[key].rename(columns={'value': name})[['time', name]]
CanTakeValue(frames, key) ==
    CanSelect(Rename(frames[key], "value", ValueName(key)), {"time", ValueName(key)})

TakeValue(frames, key) ==
    Select(Rename(frames[key], "value", ValueName(key)), {"time", ValueName(key)})

\* the GPS frame as it is merged: the first column with 'speed' in its name
\* is renamed to 'speed'; the list of columns is written before the renaming
\* and filtered after it
GpsPart(gps) ==
    LET speed_col == IF \E c \in gps.cols : HasSpeed(c)
                     THEN CHOOSE c \in gps.cols : HasSpeed(c)
                     ELSE "speed"
        gps_cols == {"time", speed_col, "lat", "lon"}
        renamed == Rename(gps, speed_col, "speed")
    IN  Select(renamed, gps_cols \cap renamed.cols)

MergeGps(m, frames) ==
    IF "gps" \in DOMAIN frames THEN MergeAsof(m, GpsPart(frames["gps"])) ELSE m

MergeValue(m, frames, key) ==
    IF key \in DOMAIN frames THEN MergeAsof(m, TakeValue(frames, key)) ELSE m

\* a KeyError of the merge section
MergeRaises(frames) ==
    \E key \in {"rpm", "steer", "gyro"} :
        key \in DOMAIN frames /\ ~CanTakeValue(frames, key)

\* the merge section: RPM, then GPS, steering and gyro joined onto it
MergeAll(frames) ==
    MergeValue(
        MergeValue(
            MergeGps(TakeValue(frames, Reference(frames)), frames),
            frames, "steer"),
        frames, "gyro")

\* 2.237, in thousandths
MphFactor == 2237

SpeedMph(r) == r["speed"] * MphFactor

\* (speed * radians(yaw_rate)) / 9.81 * -1, in units of (pi/180)/9.81
LatG(r) == (r["speed"] * r["yaw_rate"]) * (-1)

\* fillna(0), speed_mph when there is a speed, lat_g when there are a speed
\* and a yaw rate, lap = 0
Physics(m) ==
    LET filled == FillNa(m)
        n == Len(m.rows)
        s == IF "speed" \in filled.cols
             THEN Assign(filled, "speed_mph", [i \in 1..n |-> SpeedMph(filled.rows[i])])
             ELSE filled
        g == IF "yaw_rate" \in s.cols /\ "speed" \in s.cols
             THEN Assign(s, "lat_g", [i \in 1..n |-> LatG(s.rows[i])])
             ELSE s
    IN  Assign(g, "lap", [i \in 1..n |-> 0])

\* what process_batch_files hands back for the frames it loaded
BatchResult(frames) ==
    IF Reference(frames) = "none" THEN Failure(RpmMissing)
    ELSE IF MergeRaises(frames) THEN Raised("KeyError")
    ELSE Success(Physics(MergeAll(frames)), "Success (Batch)")

\* load_and_stitch_from_folder finds no combined export and falls back to
\* process_batch_files: the loading loop, the merge section, the physics
LoadAndStitchBatch ==
    /\ pc = "stage"
    /\ ~Detected(folder)
    /\ \E a \in LoadOutcomes(folder, "rpm") :
       \E b \in LoadOutcomes(folder, "gps") :
       \E c \in LoadOutcomes(folder, "steer") :
       \E d \in LoadOutcomes(folder, "gyro") :
          data_frames' = Frames(a, b, c, d)
    /\ master' = IF Reference(data_frames') = "none" \/ MergeRaises(data_frames')
                 THEN EmptyTable
                 ELSE MergeAll(data_frames')
    /\ result' = BatchResult(data_frames')
    /\ pc' = "done"
    /\ UNCHANGED <<folder, beacon_markers, df, idx, current_lap, start_t>>

-----------------------------------------------------------------------------
(* process_single_file *)

\* the fields after the "Beacon Markers" label that float() accepts, in order
RECURSIVE ParseMarkers(_)
ParseMarkers(fields) ==
    IF fields = <<>> THEN <<>>
    ELSE IF Head(fields) = Junk THEN ParseMarkers(Tail(fields))
    ELSE <<Head(fields)>> \o ParseMarkers(Tail(fields))

numeric_cols == {"Time", "RPM", "GPS Speed", "Steering Angle", "GPS LatAcc", "GPS LonAcc"}

RECURSIVE CoerceAll(_, _)
CoerceAll(t, cols) ==
    IF cols = {} THEN t
    ELSE LET c == CHOOSE x \in cols : TRUE
         IN  CoerceAll(IF c \in t.cols THEN Coerce(t, c) ELSE t, cols \ {c})

\* read_csv from the header line, the first row dropped, the column names
\* cleaned, the numeric columns coerced, lap set to 1
ParseCombined(file) ==
    LET raw == ReadCsv(file.header, Tail(file.lines), "Time")
        cleaned == Table({Clean(c) : c \in raw.cols},
                         [i \in 1..Len(raw.rows) |->
                             [c \in {Clean(x) : x \in raw.cols} |->
                                 raw.rows[i][CHOOSE x \in raw.cols : Clean(x) = c]]])
    IN  Assign(CoerceAll(cleaned, numeric_cols), "lap",
               [i \in 1..Len(cleaned.rows) |-> 1])

\* load_and_stitch_from_folder finds the combined export and enters
\* process_single_file, up to the loop over the markers.
\* ok: whether read_csv gets through the file; df.drop(0) raises a KeyError
\* on a table without rows; every exception becomes a failure result
LoadAndStitchSingle ==
    /\ pc = "stage"
    /\ Detected(folder)
    /\ \E ok \in BOOLEAN :
          IF ok /\ folder["combined"].lines # <<>>
          THEN /\ beacon_markers' = ParseMarkers(folder["combined"].markers)
               /\ df' = ParseCombined(folder["combined"])
               /\ current_lap' = 1
               /\ start_t' = 0
               /\ idx' = 1
               /\ pc' = "laps"
               /\ UNCHANGED result
          ELSE /\ result' = Failure("Error processing single file")
               /\ pc' = "done"
               /\ UNCHANGED <<beacon_markers, df, current_lap, start_t, idx>>
    /\ UNCHANGED <<folder, data_frames, master>>

\* (df['Time'] >= start_t) & (df['Time'] < marker); a missing time compares
\* false
InLap(r, lo, hi) == r["Time"] # NaN /\ r["Time"] >= lo /\ r["Time"] < hi

\* df.loc[mask, 'lap'] = current_lap
MarkLap(t, lo, hi, lap) ==
    Table(t.cols,
          [i \in 1..Len(t.rows) |->
              [c \in t.cols |->
                  IF c = "lap" /\ InLap(t.rows[i], lo, hi) THEN lap
                  ELSE t.rows[i][c]]])

\* one turn of the loop over the beacon markers
LapStep ==
    /\ pc = "laps"
    /\ idx <= Len(beacon_markers)
    /\ df' = MarkLap(df, start_t, beacon_markers[idx], current_lap)
    /\ start_t' = beacon_markers[idx]
    /\ current_lap' = current_lap + 1
    /\ idx' = idx + 1
    /\ UNCHANGED <<folder, pc, data_frames, master, beacon_markers, result>>

RenameTo(c) ==
    CASE c = "RPM" -> "rpm"
      [] c = "GPS Speed" -> "speed_mph"
      [] c = "Steering Angle" -> "steer"
      [] c = "GPS LatAcc" -> "lat_g"
      [] c = "GPS LonAcc" -> "long_g"
      [] OTHER -> c

final_cols == {"Time", "lap", "rpm", "speed_mph", "steer", "lat_g", "long_g"}

\* df.rename(columns=rename_map), then the final columns that exist
Standardize(t) ==
    LET renamed == Table({RenameTo(c) : c \in t.cols},
                         [i \in 1..Len(t.rows) |->
                             [c \in {RenameTo(x) : x \in t.cols} |->
                                 t.rows[i][CHOOSE x \in t.cols : RenameTo(x) = c]]])
    IN  Select(renamed, final_cols \cap renamed.cols)

SingleFinish ==
    /\ pc = "laps"
    /\ idx > Len(beacon_markers)
    /\ result' = Success(Standardize(df), "Success (Single File)")
    /\ pc' = "done"
    /\ UNCHANGED <<folder, data_frames, master, beacon_markers, df, idx,
                   current_lap, start_t>>

-----------------------------------------------------------------------------

Next ==
    \/ \E key \in Keys : SaveChannelFile(key)
    \/ SaveCombinedFile
    \/ SaveUnreadableFile
    \/ LoadAndStitchBatch
    \/ LoadAndStitchSingle
    \/ LapStep
    \/ SingleFinish

Spec == Init /\ [][Next]_vars

\* folders of per-channel files
NextBatch ==
    \/ \E key \in Keys : SaveChannelFile(key)
    \/ SaveUnreadableFile
    \/ LoadAndStitchBatch

SpecBatch == Init /\ [][NextBatch]_vars

\* folders that hold RPM.csv and one more channel file
NextJoin ==
    \/ \E key \in Keys \ {"rpm"} : SaveJoinFiles(key)
    \/ LoadAndStitchBatch

SpecJoin == Init /\ [][NextJoin]_vars

-----------------------------------------------------------------------------
(* Properties *)

Out == result.table

BatchDone == pc = "done" /\ ~Detected(folder)
SingleDone == pc = "done" /\ Detected(folder)
BatchOk == BatchDone /\ result.status = "ok"
SingleOk == SingleDone /\ result.status = "ok"

Ascending(ms) == \A i \in 1..Len(ms) : \A j \in 1..Len(ms) : i < j => ms[i] < ms[j]

\* the data lines of a per-channel file whose time is a number
ValidLines(file) == {i \in 1..Len(file.lines) : file.lines[i].time # Junk}

\* the file of the key exists, parses and has a time column
Loads(fld, key) ==
    /\ key \in DOMAIN fld
    /\ fld[key].parses
    /\ "Time" \in fld[key].header

Fill0(v) == IF v = NaN THEN 0 ELSE v

Abs(x) == IF x < 0 THEN 0 - x ELSE x

\* C1: after a successful single-file stitch with ascending markers, every
\* lap is an integer >= 1 and the lap does not decrease as the time grows.
C1_LapMonotone ==
    (SingleOk /\ Ascending(beacon_markers)) =>
        \A i \in 1..Len(Out.rows) :
            /\ Out.rows[i]["lap"] \in Nat
            /\ Out.rows[i]["lap"] >= 1
            /\ \A j \in 1..Len(Out.rows) :
                  (/\ Out.rows[i]["Time"] # NaN
                   /\ Out.rows[j]["Time"] # NaN
                   /\ Out.rows[i]["Time"] <= Out.rows[j]["Time"])
                  => Out.rows[i]["lap"] <= Out.rows[j]["lap"]

\* C2: a batch stitch that succeeds returns as many rows as RPM.csv has data
\* lines whose time is a number, whatever the other channels hold.
C2_RowCount ==
    BatchOk => Len(Out.rows) = Cardinality(ValidLines(folder["rpm"]))

\* C2 happens: RPM.csv has a line that is dropped and a line that is kept,
\* and a joined channel has another number of samples.
C2_Witness ==
    /\ BatchOk
    /\ Len(folder["rpm"].lines) = 2
    /\ Len(Out.rows) = 1
    /\ \E k \in DOMAIN data_frames \ {"rpm"} : Len(data_frames[k].rows) # 1

\* C3: without a loaded RPM.csv the batch stitch returns no table and the
\* reason "RPM file missing.", whichever other channel files are there.
C3_RpmMissing ==
    (BatchDone /\ ~Loads(folder, "rpm")) =>
        /\ result.status = "fail"
        /\ result.table = EmptyTable
        /\ result.msg = "RPM file missing."

\* C3 happens: RPM.csv does not load while a steering file with a sample does.
C3_Witness ==
    /\ BatchDone
    /\ "rpm" \in DOMAIN folder
    /\ ~Loads(folder, "rpm")
    /\ "steer" \in DOMAIN data_frames
    /\ Len(data_frames["steer"].rows) = 1
    /\ result.status = "fail"

\* C4: load_and_stitch_from_folder always returns a table with a message or
\* no table with a reason; no exception reaches the caller.
C4_NoException == pc = "done" => result.status \in {"ok", "fail"}

\* the output columns that come from a channel
ChannelColumns(key) ==
    CASE key = "gps" -> {"speed", "speed_mph", "lat", "lon"}
      [] key = "steer" -> {"steer"}
      [] key = "gyro" -> {"yaw_rate"}
      [] OTHER -> {"rpm"}

Without(frames, key) == [k \in DOMAIN frames \ {key} |-> frames[k]]

\* every per-channel file of the folder parses and has its columns
WellFormed(fld) == \A k \in DOMAIN fld \cap Keys : ~Malformed(fld[k])

\* C5: with RPM loaded, an optional channel that is absent, does not load or
\* has no sample leaves the stitch successful, puts no column of its own in
\* the table and leaves the other columns as they are without its file
\* (stated for the folders whose files all parse and have their columns).
C5_OptionalOmitted ==
    (BatchDone /\ Loads(folder, "rpm") /\ WellFormed(folder)) =>
        \A k \in Keys \ {"rpm"} :
            (~Loads(folder, k) \/ ValidLines(folder[k]) = {}) =>
                /\ result.status = "ok"
                /\ Out.cols \cap ChannelColumns(k) = {}
                /\ LET w == Physics(MergeAll(Without(data_frames, k)))
                   IN  \A c \in w.cols :
                          /\ c \in Out.cols
                          /\ \A i \in 1..Len(w.rows) : Out.rows[i][c] = w.rows[i][c]

\* C6: no cell of a table returned on success is missing.
C6_NoMissing ==
    (pc = "done" /\ result.status = "ok") =>
        \A i \in 1..Len(Out.rows) : \A c \in Out.cols :
            Out.rows[i][c] \notin {NaN, Junk}

\* C7: a table returned on success has its columns among time, rpm,
\* speed_mph, steer, lat_g, long_g, lap, with time and rpm among them, and in
\* batch mode a lap column that is 0 on every row.
C7_Columns ==
    (pc = "done" /\ result.status = "ok") =>
        /\ Out.cols \subseteq {"time", "rpm", "speed_mph", "steer", "lat_g", "long_g", "lap"}
        /\ {"time", "rpm"} \subseteq Out.cols
        /\ BatchDone =>
              /\ "lap" \in Out.cols
              /\ \A i \in 1..Len(Out.rows) : Out.rows[i]["lap"] = 0

\* the GPS file loads and has a speed column
HasGpsSpeed(fld) ==
    /\ Loads(fld, "gps")
    /\ \E c \in fld["gps"].header : HasSpeed(Lower(c))

\* C8: in batch mode with a GPS speed channel the table has a long_g column,
\* 0 on every row when the speed is constant, and the first 9 rows of long_g
\* and of lat_g are 0.
C8_LongG ==
    (BatchOk /\ HasGpsSpeed(folder)) =>
        /\ "long_g" \in Out.cols
        /\ (\A i, j \in 1..Len(Out.rows) : Out.rows[i]["speed"] = Out.rows[j]["speed"])
              => \A i \in 1..Len(Out.rows) : Out.rows[i]["long_g"] = 0
        /\ \A c \in {"long_g", "lat_g"} \cap Out.cols :
              \A i \in 1..Len(Out.rows) : i <= 9 => Out.rows[i][c] = 0

\* markers at or before t
MarkersUpTo(ms, t) == Cardinality({i \in 1..Len(ms) : ms[i] <= t})

\* C9: with markers m_1 < ... < m_k a row whose time lies in [m_(i-1), m_i)
\* has lap i (m_0 = 0) and a row at or after m_k has lap k+1: the lap of a
\* row is one more than the number of markers at or before its time.
C9_LapOfRow ==
    (SingleOk /\ Ascending(beacon_markers)) =>
        \A i \in 1..Len(Out.rows) :
            (Out.rows[i]["Time"] # NaN /\ Out.rows[i]["Time"] >= 0) =>
                Out.rows[i]["lap"] = 1 + MarkersUpTo(beacon_markers, Out.rows[i]["Time"])

\* the columns of the table that are joined from a channel file, each with
\* the channel frame's column it is taken from
JoinedColumns(key) ==
    CASE key = "gps" -> {<<"speed", "speed">>, <<"lat", "lat">>, <<"lon", "lon">>}
      [] key = "steer" -> {<<"steer", "value">>}
      [] OTHER -> {<<"yaw_rate", "value">>}

\* a value as it is, or with 0 for a missing one
Fix(filled, v) == IF filled THEN Fill0(v) ELSE v

\* v is what Fix makes of the value of a sample of the frame that is nearest
\* to t, and of no later sample when an earlier one is as near
FromNearest(v, rows, col, t, filled) ==
    \E j \in 1..Len(rows) :
        /\ \A n \in 1..Len(rows) :
              Abs(rows[j]["time"] - t) <= Abs(rows[n]["time"] - t)
        /\ \A n \in 1..Len(rows) :
              Abs(rows[n]["time"] - t) = Abs(rows[j]["time"] - t)
                  => rows[j]["time"] <= rows[n]["time"]
        /\ v = Fix(filled, rows[j][col])

\* how often the pair of time and value is a valid data line of the file
CountLines(file, t, v, filled) ==
    Cardinality({i \in ValidLines(file) :
                    file.lines[i].time = t /\ Fix(filled, file.lines[i].value) = v})

CountRows(t, v) ==
    Cardinality({i \in 1..Len(Out.rows) :
                    Out.rows[i]["time"] = t /\ Out.rows[i]["rpm"] = v})

\* every joined value is the nearest sample's, and the time and rpm columns
\* are the RPM series in ascending time, each value passed through Fix
NearestJoin(filled) ==
    BatchOk =>
        /\ \A k \in DOMAIN data_frames \ {"rpm"} :
              \A p \in JoinedColumns(k) :
                 (p[1] \in Out.cols /\ p[2] \in data_frames[k].cols
                  /\ data_frames[k].rows # <<>>) =>
                     \A i \in 1..Len(Out.rows) :
                        FromNearest(Out.rows[i][p[1]], data_frames[k].rows, p[2],
                                    Out.rows[i]["time"], filled)
        /\ Len(Out.rows) = Cardinality(ValidLines(folder["rpm"]))
        /\ \A i \in 1..Len(Out.rows) : \A j \in 1..Len(Out.rows) :
              i < j => Out.rows[i]["time"] <= Out.rows[j]["time"]
        /\ \A i \in 1..Len(Out.rows) :
              CountRows(Out.rows[i]["time"], Out.rows[i]["rpm"]) =
                 CountLines(folder["rpm"], Out.rows[i]["time"], Out.rows[i]["rpm"], filled)

\* C10: every value joined onto an RPM row is the value of the channel sample
\* nearest in time, the earlier one of two equally near; the time and rpm
\* columns are the RPM series in ascending time, unchanged.
C10_Nearest == NearestJoin(FALSE)

\* C10, amended: as C10, a missing value of a sample or of an RPM line being
\* put out as 0.
C10_NearestFilled == NearestJoin(TRUE)

\* C10 happens: an RPM row lies midway between two samples of different
\* values and carries the earlier one's.
C10_Witness ==
    /\ BatchOk
    /\ "steer" \in DOMAIN data_frames
    /\ Len(data_frames["steer"].rows) = 2
    /\ data_frames["steer"].rows[1]["time"] = 0
    /\ data_frames["steer"].rows[2]["time"] = 2
    /\ data_frames["steer"].rows[1]["value"] = 1
    /\ data_frames["steer"].rows[2]["value"] = 0
    /\ Len(Out.rows) = 1
    /\ Out.rows[1]["time"] = 1
    /\ Out.rows[1]["steer"] = 1

====
